---- MODULE Spec2Model ----
(***************************************************************************)
(* NCM container decoder: dump (scripts/ncmdump.js, Node) and dumpNcm      *)
(* (src/lib/ncmdump-browser.ts, browser), plus the CLI batch loop.         *)
(*                                                                         *)
(* The input buffer is known by its length and its first eight bytes; the  *)
(* other fields (length prefixes, the outcome of the AES library calls,    *)
(* the metadata JSON) are inputs drawn when the code reads them.  The      *)
(* bytes of the audio region are DataByte(p) for the absolute position p.  *)
(***************************************************************************)
EXTENDS Integers, Sequences, FiniteSets, TLC

VARIABLES
  impl,          \* "node" (dump) or "browser" (dumpNcm)
  dataLen,       \* data.length / bytes.length
  header,        \* the first min(8, dataLen) bytes of the buffer
  pc,            \* position in dump / dumpNcm
  error,         \* kind of the exception thrown, "none" while running
  failedAt,      \* pc at which the exception was thrown
  offset,        \* let offset
  overrun,       \* which block's length prefix exceeded the remaining bytes
  keyTaken,      \* keyDataXored.length
  keyDecrypted,  \* const keyDecrypted
  keyBox,        \* const keyBox (Uint8Array(256)), indices 0..255
  ksaI,          \* loop variable i of the key-box loop
  lastByte,      \* let lastByte
  keyOffset,     \* let keyOffset
  metaTaken,     \* metaDataXored.length
  metaFailure,   \* which metadata decoding step threw, "none" otherwise
  metaJson,      \* const metaJson
  format,        \* const format
  fileOpened,    \* fs.openSync(outPath, 'w') has created the output file
  fileClosed,    \* fs.closeSync(fd) has run
  pos,           \* loop variable pos of the chunk loop
  out,           \* bytes written to the output file / audioOut
  \* keystream transform taken alone (chunk loop with a chosen chunk size)
  sBox, sPayload, sChunk, sPos, sOut, sPass, sFirst,
  \* CLI batch loop
  targets, failing, ti, log, attempts, exitCode

dumpVars == <<impl, dataLen, header, pc, error, failedAt, offset, overrun,
              keyTaken, keyDecrypted, keyBox, ksaI, lastByte, keyOffset,
              metaTaken, metaFailure, metaJson, format, fileOpened,
              fileClosed, pos, out>>
streamVars == <<sBox, sPayload, sChunk, sPos, sOut, sPass, sFirst>>
cliVars == <<targets, failing, ti, log, attempts, exitCode>>
vars == <<dumpVars, streamVars, cliVars>>

----------------------------------------------------------------------------
(* Program constants *)

BoxSize == 256
\* a chunk size one byte short of 0x8000, no multiple of 256
CHUNK_NotMultiple == 32768 - 1
CHUNK == 32768
KeyPrefix == 17
MetaPrefix == 22
HeaderLen == 8
AesBlock == 16

Magic == <<67, 84, 69, 78, 70, 68, 65, 77>>

(* Bounds of the model *)

MaxKeyLen == 2
MaxTail == 2
MaxPayload == 3
MaxTargets == 3

Min(a, b) == IF a < b THEN a ELSE b
Max(a, b) == IF a > b THEN a ELSE b

----------------------------------------------------------------------------
(* Bytes *)

RECURSIVE BitXor(_, _, _)
BitXor(a, b, n) ==
  IF n = 0 THEN 0
  ELSE ((a + b) % 2) + 2 * BitXor(a \div 2, b \div 2, n - 1)

XorNibble == [a \in 0..15 |-> [b \in 0..15 |-> BitXor(a, b, 4)]]

\* += in place of ^=
Xor_Add(a, b) == (a + b) % 256

\* a ^ b on two bytes
Xor(a, b) == 16 * XorNibble[a \div 16][b \div 16] + XorNibble[a % 16][b % 16]

----------------------------------------------------------------------------
(* The input buffer *)

\* data[p] for a position p of the region after the image block
DataByte(p) == (7 * p + 13 * (p \div 256) + 5) % 256

\* data.subarray(from, to), both ends already clamped to the buffer
DataSlice(from, to) == [k \in 1..(to - from) |-> DataByte(from + k - 1)]

\* offsets of a container with a 32-byte key block, a 38-byte metadata
\* block and no image: the audio payload starts at BaseLen
KeyBlockLen == 2 * AesBlock
MetaBlockLen == MetaPrefix + AesBlock
BaseLen == HeaderLen + 2 + 4 + KeyBlockLen + 4 + MetaBlockLen + 4 + 5 + 4
ImageLen == 3

Lens == {0, 7, 12, 20, 14 + KeyBlockLen, 60, 75, 90, 99, BaseLen,
         BaseLen + ImageLen, BaseLen + BoxSize + MaxTail,
         BaseLen + CHUNK + MaxTail}

\* the first min(8, len) bytes a buffer of length len may start with
Headers(len) ==
  IF len >= HeaderLen
  THEN {Magic, [Magic EXCEPT ![8] = 0], [Magic EXCEPT ![1] = 99]}
  ELSE {SubSeq(Magic, 1, len), [k \in 1..len |-> 0]}

KeyByteSamples == {0, 7, 255}
Keys == UNION {[1..k -> KeyByteSamples] : k \in 0..MaxKeyLen}

\* the derived keys tried with a buffer of length len: all of them with the
\* well-formed container of BaseLen bytes, the one-byte keys with the
\* buffers of more than one chunk, those of at most one byte with the others
KeysFor(len) ==
  IF len = BaseLen THEN Keys
  ELSE IF len > CHUNK THEN {k \in Keys : Len(k) = 1}
  ELSE {k \in Keys : Len(k) <= 1}

\* length prefixes a block may declare when rem bytes follow the prefix
KeyLengths(rem) == {KeyBlockLen, rem + 1}
MetaLengths(rem) == {0, MetaBlockLen, rem + 1}
ImageSizes(len, rem) ==
  IF len > CHUNK THEN {0, rem + 1} ELSE {0, ImageLen, rem + 1}

MetaFormats == {"flac", "FLAC", ""}
NoJson == [parsed |-> FALSE, hasFormat |-> FALSE, format |-> ""]
MetaJsons ==
  {[parsed |-> TRUE, hasFormat |-> TRUE, format |-> f] : f \in MetaFormats}
    \cup {[parsed |-> TRUE, hasFormat |-> FALSE, format |-> ""]}
\* the metadata records tried with a buffer of length len: one of them
\* with the buffers of more than one chunk
MetaJsonsFor(len) ==
  IF len > CHUNK THEN {j \in MetaJsons : j.format = "flac"} ELSE MetaJsons

----------------------------------------------------------------------------
(* Header check *)

\* bytes[i] of a typed array: undefined (-1) beyond its end
ByteAt(bytes, i) == IF i < Len(bytes) THEN bytes[i + 1] ELSE -1

\* dump: header.toString('hex') !== '4354454e4644414d'
NodeHeaderBad(h) == h # Magic

\* dumpNcm: for (i < 8) if (bytes[i] !== expected[i]) throw
BrowserHeaderBad(h) == \E i \in 0..(HeaderLen - 1) : ByteAt(h, i) # Magic[i + 1]

\* a comparison of the bytes present only
HeaderBad_PrefixOnly(im, h) == \E i \in 1..Len(h) : h[i] # Magic[i]

HeaderBad(im, h) == IF im = "node" THEN NodeHeaderBad(h) ELSE BrowserHeaderBad(h)

----------------------------------------------------------------------------
(* AES-128-ECB with PKCS#7 on the key block, then .subarray(17) *)

\* crypto.createDecipheriv(...).final() throws on a ciphertext that is empty
\* or not a whole number of blocks, and on bad padding; otherwise the
\* plaintext has n-16 .. n-1 bytes.
NodeKeyCanThrow(n) == TRUE
NodeKeyLens(n) ==
  IF n = 0 \/ n % AesBlock # 0 THEN {}
  ELSE {Max(0, p - KeyPrefix) : p \in (n - AesBlock)..(n - 1)}

\* CryptoJS never throws; sigBytes = n - (last byte of the last block), and
\* new Uint8Array(sigBytes) throws a RangeError when that is negative.
BrowserKeyCanThrow(n) == n < 255
BrowserKeyLens(n) == {Max(0, p - KeyPrefix) : p \in 0..n}

KeyCanThrow(im, n) == IF im = "node" THEN NodeKeyCanThrow(n) ELSE BrowserKeyCanThrow(n)
KeyLens(im, n) == IF im = "node" THEN NodeKeyLens(n) ELSE BrowserKeyLens(n)

----------------------------------------------------------------------------
(* Key box *)

IdentityBox == [i \in 0..(BoxSize - 1) |-> i]

\* the swap without its temporary: keyBox[i] = keyBox[c]; keyBox[c] = keyBox[i]
SwapEntries_NoTemp(box, i, c) == [box EXCEPT ![i] = box[c]]

\* keyBox[i] = keyBox[c]; keyBox[c] = swap   (swap = keyBox[i])
SwapEntries(box, i, c) == [box EXCEPT ![i] = box[c], ![c] = box[i]]

\* c = (swap + lastByte + keyDecrypted[keyOffset]) & 0xff; an index beyond
\* the key reads undefined, the sum is NaN and NaN & 0xff is 0
NextC(box, i, last, ko, key) ==
  IF ko < Len(key) THEN (box[i] + last + key[ko + 1]) % BoxSize ELSE 0

\* keyOffset += 1; if (keyOffset >= keyDecrypted.length) keyOffset = 0
NextKeyOffset(ko, key) == IF ko + 1 >= Len(key) THEN 0 ELSE ko + 1

\* one iteration of the key-box loop on [box, last, ko]
KsaOne(st, i, key) ==
  LET c == NextC(st.box, i, st.last, st.ko, key)
  IN  [box |-> SwapEntries(st.box, i, c), last |-> c,
       ko |-> NextKeyOffset(st.ko, key)]

\* iterations i .. i + n - 1 of the key-box loop, in order (lastByte is
\* always a byte: the test only makes the first half be computed first)
RECURSIVE KsaRun(_, _, _, _)
KsaRun(st, i, n, key) ==
  IF n = 1 THEN KsaOne(st, i, key)
  ELSE LET half == KsaRun(st, i, n \div 2, key)
       IN  IF half.last \in 0..(BoxSize - 1)
           THEN KsaRun(half, i + n \div 2, n - n \div 2, key)
           ELSE half

\* the key box the loop builds from a derived key
BuildKeyBox(key) ==
  KsaRun([box |-> IdentityBox, last |-> 0, ko |-> 0], 0, BoxSize, key).box

\* 256 entries whose values are exactly 0..255: each value occurs once
IsPermutation(box) ==
  /\ DOMAIN box = 0..(BoxSize - 1)
  /\ {box[i] : i \in DOMAIN box} = 0..(BoxSize - 1)

----------------------------------------------------------------------------
(* Keystream transform *)

\* idx = (keyBox[j] + keyBox[(keyBox[j] + j) & 0xff]) & 0xff
Idx(box, j) == (box[j] + box[(box[j] + j) % BoxSize]) % BoxSize

\* the inner loop with a 0-based keystream position: j = (i - 1) & 0xff
DecodeChunk_ZeroBased(box, chunk) ==
  [i \in 1..Len(chunk) |-> Xor(chunk[i], box[Idx(box, (i - 1) % BoxSize)])]

\* dump's inner loop over one chunk: for (i = 1; i <= len; i++) with
\* j = i & 0xff and chunk[i - 1] ^= keyBox[idx]
DecodeChunk(box, chunk) ==
  [i \in 1..Len(chunk) |-> Xor(chunk[i], box[Idx(box, i % BoxSize)])]

\* dumpNcm's loop: for (i = 0; i < audioIn.length; i++) with
\* j = (i + 1) & 0xff and audioOut[i] = audioIn[i] ^ keyBox[idx]
DecodeAudio(box, audioIn) ==
  [k \in 1..Len(audioIn) |-> Xor(audioIn[k], box[Idx(box, ((k - 1) + 1) % BoxSize)])]

----------------------------------------------------------------------------
(* dump(filePath) and dumpNcm(input) *)

StreamIdle ==
  /\ sBox = IdentityBox /\ sPayload = <<>> /\ sChunk = 0 /\ sPos = 0
  /\ sOut = <<>> /\ sPass = 0 /\ sFirst = <<>>

CliIdle ==
  /\ targets = <<>> /\ failing = {} /\ ti = 0 /\ log = <<>>
  /\ attempts = <<>> /\ exitCode = -1

DumpIdle ==
  /\ impl = "node" /\ dataLen = 0 /\ header = <<>> /\ pc = "idle"
  /\ error = "none" /\ failedAt = "none" /\ offset = 0 /\ overrun = "none"
  /\ keyTaken = 0 /\ keyDecrypted = <<>> /\ keyBox = IdentityBox
  /\ ksaI = 0 /\ lastByte = 0 /\ keyOffset = 0 /\ metaTaken = 0
  /\ metaFailure = "none" /\ metaJson = NoJson /\ format = ""
  /\ fileOpened = FALSE /\ fileClosed = FALSE /\ pos = 0 /\ out = <<>>

Init ==
  /\ impl \in {"node", "browser"}
  /\ dataLen \in Lens
  /\ header \in Headers(dataLen)
  /\ pc = "header"
  /\ error = "none" /\ failedAt = "none" /\ offset = 0 /\ overrun = "none"
  /\ keyTaken = 0 /\ keyDecrypted = <<>> /\ keyBox = IdentityBox
  /\ ksaI = 0 /\ lastByte = 0 /\ keyOffset = 0 /\ metaTaken = 0
  /\ metaFailure = "none" /\ metaJson = NoJson /\ format = ""
  /\ fileOpened = FALSE /\ fileClosed = FALSE /\ pos = 0 /\ out = <<>>
  /\ StreamIdle /\ CliIdle

\* throw: the exception leaves dump / dumpNcm
Throw(kind) ==
  /\ pc' = "failed" /\ error' = kind /\ failedAt' = pc

\* readUInt32LE(offset) / getUint32(offset, true) throw a RangeError unless
\* the four bytes lie inside the buffer
U32InBounds == offset + 4 <= dataLen

CheckHeader ==
  /\ UNCHANGED <<streamVars, cliVars>>
  /\ pc = "header"
  /\ IF HeaderBad(impl, header)
     THEN /\ Throw("InvalidHeader")
          /\ offset' = IF impl = "node" THEN HeaderLen ELSE offset
     ELSE /\ pc' = "keyLen"
          /\ offset' = HeaderLen + 2
          /\ UNCHANGED <<error, failedAt>>
  /\ UNCHANGED <<impl, dataLen, header, overrun, keyTaken, keyDecrypted,
                 keyBox, ksaI, lastByte, keyOffset, metaTaken, metaFailure,
                 metaJson, format, fileOpened, fileClosed, pos, out>>

\* keyLength, keyDataXored = subarray/slice(offset, offset + keyLength)
\* (clamped to the buffer), offset += keyLength, ^= 0x64
ReadKey ==
  /\ UNCHANGED <<streamVars, cliVars>>
  /\ pc = "keyLen"
  /\ IF ~U32InBounds
     THEN /\ Throw("OutOfBounds")
          /\ UNCHANGED <<offset, overrun, keyTaken>>
     ELSE \E keyLength \in KeyLengths(dataLen - (offset + 4)) :
            /\ keyTaken' = Min(keyLength, dataLen - (offset + 4))
            /\ overrun' = IF keyLength > dataLen - (offset + 4) THEN "key" ELSE overrun
            /\ offset' = offset + 4 + keyLength
            /\ pc' = "keyDecrypt"
            /\ UNCHANGED <<error, failedAt>>
  /\ UNCHANGED <<impl, dataLen, header, keyDecrypted, keyBox, ksaI, lastByte,
                 keyOffset, metaTaken, metaFailure, metaJson, format,
                 fileOpened, fileClosed, pos, out>>

\* keyDecrypted = AES-ECB-decrypt(keyDataXored, coreKey).subarray(17)
DecryptKey ==
  /\ UNCHANGED <<streamVars, cliVars>>
  /\ pc = "keyDecrypt"
  /\ \/ /\ KeyCanThrow(impl, keyTaken)
        /\ Throw("CipherError")
        /\ UNCHANGED keyDecrypted
     \/ \E key \in KeysFor(dataLen) :
          /\ Len(key) \in KeyLens(impl, keyTaken)
          /\ keyDecrypted' = key
          /\ pc' = "ksa"
          /\ UNCHANGED <<error, failedAt>>
  /\ UNCHANGED <<impl, dataLen, header, offset, overrun, keyTaken, keyBox,
                 ksaI, lastByte, keyOffset, metaTaken, metaFailure, metaJson,
                 format, fileOpened, fileClosed, pos, out>>

\* one iteration of the key-box loop
KsaStep ==
  /\ UNCHANGED <<streamVars, cliVars>>
  /\ pc = "ksa"
  /\ ksaI < BoxSize
  /\ LET st == KsaOne([box |-> keyBox, last |-> lastByte, ko |-> keyOffset],
                      ksaI, keyDecrypted)
     IN  /\ keyBox' = st.box
         /\ lastByte' = st.last
         /\ keyOffset' = st.ko
  /\ ksaI' = ksaI + 1
  /\ pc' = IF ksaI + 1 = BoxSize THEN "metaLen" ELSE "ksa"
  /\ UNCHANGED <<impl, dataLen, header, error, failedAt, offset, overrun,
                 keyTaken, keyDecrypted, metaTaken, metaFailure, metaJson,
                 format, fileOpened, fileClosed, pos, out>>

\* metaLength, metaDataXored = subarray/slice(offset, offset + metaLength)
\* (clamped), offset += metaLength, ^= 0x63
ReadMeta ==
  /\ UNCHANGED <<streamVars, cliVars>>
  /\ pc = "metaLen"
  /\ IF ~U32InBounds
     THEN /\ Throw("OutOfBounds")
          /\ UNCHANGED <<offset, overrun, metaTaken>>
     ELSE \E metaLength \in MetaLengths(dataLen - (offset + 4)) :
            /\ metaTaken' = Min(metaLength, dataLen - (offset + 4))
            /\ overrun' = IF metaLength > dataLen - (offset + 4) THEN "meta" ELSE overrun
            /\ offset' = offset + 4 + metaLength
            /\ pc' = "metaDecode"
            /\ UNCHANGED <<error, failedAt>>
  /\ UNCHANGED <<impl, dataLen, header, keyTaken, keyDecrypted, keyBox, ksaI,
                 lastByte, keyOffset, metaFailure, metaJson, format,
                 fileOpened, fileClosed, pos, out>>

\* the steps of the metadata decoding that can throw: atob (browser only;
\* Buffer.from(s, 'base64') skips what it cannot decode), the cipher
\* (decipher.final() in Node, new Uint8Array(sigBytes < 0) in the browser)
\* and JSON.parse
MetaFailures(im) ==
  IF im = "node" THEN {"cipher", "json"} ELSE {"base64", "cipher", "json"}

\* nothing is left after .subarray(22): the ciphertext is empty, on which
\* decipher.final() throws and CryptoJS returns "", which JSON.parse rejects
MetaMustFail(n) == n <= MetaPrefix

\* base64-decode, AES-ECB-decrypt under metaKey, .slice(6), JSON.parse: no
\* try/catch surrounds them
DecodeMeta ==
  /\ UNCHANGED <<streamVars, cliVars>>
  /\ pc = "metaDecode"
  /\ \/ \E cause \in MetaFailures(impl) :
          /\ MetaMustFail(metaTaken) => cause = (IF impl = "node" THEN "cipher" ELSE "json")
          /\ metaFailure' = cause
          /\ Throw("MetadataDecodeError")
          /\ UNCHANGED metaJson
     \/ /\ ~MetaMustFail(metaTaken)
        /\ \E json \in MetaJsonsFor(dataLen) :
             /\ metaJson' = json
             /\ pc' = "crc"
             /\ UNCHANGED <<error, failedAt, metaFailure>>
  /\ UNCHANGED <<impl, dataLen, header, offset, overrun, keyTaken,
                 keyDecrypted, keyBox, ksaI, lastByte, keyOffset, metaTaken,
                 format, fileOpened, fileClosed, pos, out>>

\* readUInt32LE(offset) (crc32, discarded); offset += 4; offset += 5
ReadCrc ==
  /\ UNCHANGED <<streamVars, cliVars>>
  /\ pc = "crc"
  /\ IF ~U32InBounds
     THEN /\ Throw("OutOfBounds")
          /\ UNCHANGED offset
     ELSE /\ offset' = offset + 4 + 5
          /\ pc' = "image"
          /\ UNCHANGED <<error, failedAt>>
  /\ UNCHANGED <<impl, dataLen, header, overrun, keyTaken, keyDecrypted,
                 keyBox, ksaI, lastByte, keyOffset, metaTaken, metaFailure,
                 metaJson, format, fileOpened, fileClosed, pos, out>>

\* imageSize = readUInt32LE(offset); offset += 4; offset += imageSize
ReadImage ==
  /\ UNCHANGED <<streamVars, cliVars>>
  /\ pc = "image"
  /\ IF ~U32InBounds
     THEN /\ Throw("OutOfBounds")
          /\ UNCHANGED <<offset, overrun>>
     ELSE \E imageSize \in ImageSizes(dataLen, dataLen - (offset + 4)) :
            /\ overrun' = IF imageSize > dataLen - (offset + 4) THEN "image" ELSE overrun
            /\ offset' = offset + 4 + imageSize
            /\ pc' = IF impl = "node" THEN "open" ELSE "audio"
            /\ UNCHANGED <<error, failedAt>>
  /\ UNCHANGED <<impl, dataLen, header, keyTaken, keyDecrypted, keyBox, ksaI,
                 lastByte, keyOffset, metaTaken, metaFailure, metaJson,
                 format, fileOpened, fileClosed, pos, out>>

\* metaJson.format || 'mp3'
FormatOf(json) == IF json.hasFormat /\ json.format # "" THEN json.format ELSE "mp3"

\* String.prototype.toLowerCase on the formats of the model
ToLowerCase(f) == IF f = "FLAC" THEN "flac" ELSE f

\* dump: format, outPath, fd = fs.openSync(outPath, 'w'), pos = offset
OpenOutput ==
  /\ UNCHANGED <<streamVars, cliVars>>
  /\ pc = "open" /\ impl = "node"
  /\ format' = FormatOf(metaJson)
  /\ fileOpened' = TRUE
  /\ pos' = offset
  /\ pc' = "chunk"
  /\ UNCHANGED <<impl, dataLen, header, error, failedAt, offset, overrun,
                 keyTaken, keyDecrypted, keyBox, ksaI, lastByte, keyOffset,
                 metaTaken, metaFailure, metaJson, fileClosed, out>>

\* dump: one iteration of for (pos = offset; pos < data.length; pos += CHUNK)
WriteChunk ==
  /\ UNCHANGED <<streamVars, cliVars>>
  /\ pc = "chunk" /\ impl = "node"
  /\ pos < dataLen
  /\ LET end == Min(pos + CHUNK, dataLen)
     IN  out' = out \o DecodeChunk(keyBox, DataSlice(pos, end))
  /\ pos' = pos + CHUNK
  /\ UNCHANGED <<impl, dataLen, header, pc, error, failedAt, offset, overrun,
                 keyTaken, keyDecrypted, keyBox, ksaI, lastByte, keyOffset,
                 metaTaken, metaFailure, metaJson, format, fileOpened,
                 fileClosed>>

\* dump: the loop ends, finally { fs.closeSync(fd) }, return outPath
CloseOutput ==
  /\ UNCHANGED <<streamVars, cliVars>>
  /\ pc = "chunk" /\ impl = "node"
  /\ pos >= dataLen
  /\ fileClosed' = TRUE
  /\ pc' = "done"
  /\ UNCHANGED <<impl, dataLen, header, error, failedAt, offset, overrun,
                 keyTaken, keyDecrypted, keyBox, ksaI, lastByte, keyOffset,
                 metaTaken, metaFailure, metaJson, format, fileOpened, pos,
                 out>>

\* dumpNcm: audioIn = bytes.subarray(offset) (clamped), the decode loop,
\* format = (metaJson.format || 'mp3').toLowerCase(), return
DecodeAudioStep ==
  /\ UNCHANGED <<streamVars, cliVars>>
  /\ pc = "audio" /\ impl = "browser"
  /\ out' = DecodeAudio(keyBox, DataSlice(Min(offset, dataLen), dataLen))
  /\ format' = ToLowerCase(FormatOf(metaJson))
  /\ pc' = "done"
  /\ UNCHANGED <<impl, dataLen, header, error, failedAt, offset, overrun,
                 keyTaken, keyDecrypted, keyBox, ksaI, lastByte, keyOffset,
                 metaTaken, metaFailure, metaJson, fileOpened, fileClosed,
                 pos>>

Next ==
  \/ CheckHeader \/ ReadKey \/ DecryptKey \/ KsaStep \/ ReadMeta
  \/ DecodeMeta \/ ReadCrc \/ ReadImage \/ OpenOutput \/ WriteChunk
  \/ CloseOutput \/ DecodeAudioStep

Spec == Init /\ [][Next]_vars

----------------------------------------------------------------------------
(* The keystream transform alone: dump's chunk loop run with a chosen     *)
(* chunk size (0: dumpNcm's single loop), twice over the same key box.    *)

ByteSamples == {0, 90, 255}
StreamPayloads ==
  UNION {[1..n -> ByteSamples] : n \in 0..MaxPayload}
    \cup {DataSlice(0, n) : n \in {BoxSize + 1, 2 * BoxSize + MaxTail}}

ChunkSizes == (0..MaxPayload) \cup {BoxSize, 2 * BoxSize, CHUNK}

StreamBoxes == {IdentityBox} \cup {BuildKeyBox(k) : k \in {<<7>>, <<255, 0>>, <<90, 7, 0>>}}

\* the bytes the running pass reads: the payload, then the first pass's output
StreamInput == IF sPass = 1 THEN sPayload ELSE sFirst

InitStream ==
  /\ DumpIdle /\ CliIdle
  /\ sBox \in StreamBoxes
  /\ sPayload \in StreamPayloads
  /\ sChunk \in ChunkSizes
  /\ sPos = 0 /\ sOut = <<>> /\ sPass = 1 /\ sFirst = <<>>

\* one iteration of for (pos = offset; pos < data.length; pos += CHUNK)
StreamChunk ==
  /\ sPass \in {1, 2} /\ sChunk >= 1
  /\ sPos < Len(StreamInput)
  /\ LET end == Min(sPos + sChunk, Len(StreamInput))
     IN  sOut' = sOut \o DecodeChunk(sBox, SubSeq(StreamInput, sPos + 1, end))
  /\ sPos' = sPos + sChunk
  /\ UNCHANGED <<sBox, sPayload, sChunk, sPass, sFirst, dumpVars, cliVars>>

\* dumpNcm's loop over the whole input
StreamWhole ==
  /\ sPass \in {1, 2} /\ sChunk = 0
  /\ sPos = 0 /\ Len(StreamInput) > 0
  /\ sOut' = DecodeAudio(sBox, StreamInput)
  /\ sPos' = Len(StreamInput)
  /\ UNCHANGED <<sBox, sPayload, sChunk, sPass, sFirst, dumpVars, cliVars>>

\* the loop is over: the output is complete, and is fed to the next pass
StreamEnd ==
  /\ sPass \in {1, 2}
  /\ sPos >= Len(StreamInput)
  /\ sPass' = sPass + 1
  /\ sFirst' = IF sPass = 1 THEN sOut ELSE sFirst
  /\ sOut' = IF sPass = 1 THEN <<>> ELSE sOut
  /\ sPos' = 0
  /\ UNCHANGED <<sBox, sPayload, sChunk, dumpVars, cliVars>>

NextStream == StreamChunk \/ StreamWhole \/ StreamEnd

SpecStream == InitStream /\ [][NextStream]_vars

----------------------------------------------------------------------------
(* The CLI batch loop: for (const file of targets) try { dump } catch {} *)

Files == {"a.ncm", "b.ncm"}
TargetLists == UNION {[1..n -> Files] : n \in 0..MaxTargets}

InitCli ==
  /\ DumpIdle /\ StreamIdle
  /\ targets \in TargetLists
  /\ failing = {} /\ ti = 0 /\ log = <<>> /\ attempts = <<>> /\ exitCode = -1

\* targets.length === 0: console.error('No files matched.'); process.exit(2)
CliNoFiles ==
  /\ exitCode = -1 /\ Len(targets) = 0
  /\ exitCode' = 2
  /\ UNCHANGED <<targets, failing, ti, log, attempts, dumpVars, streamVars>>

\* no catch: the exception ends the process with exit code 1
OnDumpThrow_Uncaught(code) == 1

\* catch (err) { console.error(...) }: the exception ends there and the
\* process keeps running
OnDumpThrow(code) == code

\* dump(file) returns: console.log(`Decoded: ...`)
CliDecoded ==
  /\ exitCode = -1 /\ ti < Len(targets)
  /\ attempts' = Append(attempts, targets[ti + 1])
  /\ log' = Append(log, [file |-> targets[ti + 1], kind |-> "Decoded"])
  /\ ti' = ti + 1
  /\ UNCHANGED <<targets, failing, exitCode, dumpVars, streamVars>>

\* dump(file) throws: console.error(`Failed: ...`)
CliFailed ==
  /\ exitCode = -1 /\ ti < Len(targets)
  /\ attempts' = Append(attempts, targets[ti + 1])
  /\ failing' = failing \cup {ti + 1}
  /\ log' = Append(log, [file |-> targets[ti + 1], kind |-> "Failed"])
  /\ ti' = ti + 1
  /\ exitCode' = OnDumpThrow(exitCode)
  /\ UNCHANGED <<targets, dumpVars, streamVars>>

\* the loop is over and the process exits normally
CliFinish ==
  /\ exitCode = -1 /\ Len(targets) > 0 /\ ti = Len(targets)
  /\ exitCode' = 0
  /\ UNCHANGED <<targets, failing, ti, log, attempts, dumpVars, streamVars>>

NextCli == CliNoFiles \/ CliDecoded \/ CliFailed \/ CliFinish

SpecCli == InitCli /\ [][NextCli]_vars

----------------------------------------------------------------------------
(* Properties *)

\* the key block has been decrypted and the key-box loop entered
KeyRecovered ==
  \/ pc \in {"ksa", "metaLen", "metaDecode", "crc", "image", "open", "audio",
             "chunk", "done"}
  \/ pc = "failed" /\ failedAt \notin {"header", "keyLen", "keyDecrypt"}

\* The key-box loop, run in steps, builds what BuildKeyBox computes.
KsaLoopIsBuildKeyBox ==
  (KeyRecovered /\ ksaI = BoxSize) => keyBox = BuildKeyBox(keyDecrypted)

\* C1: for every non-empty derived key the key box is a permutation of
\* 0..255 after each iteration of the key-scheduling loop and after the
\* loop, in dump and in dumpNcm.
C1_KeyBoxPermutation ==
  (KeyRecovered /\ Len(keyDecrypted) >= 1) => IsPermutation(keyBox)

C1_Witness ==
  /\ pc = "metaLen" /\ ksaI = BoxSize /\ impl = "browser"
  /\ Len(keyDecrypted) = 2 /\ keyBox # IdentityBox

\* the keystream byte for the absolute payload offset n:
\* table[idx(n)], j = (n + 1) mod 256
KeystreamAt(box, n) == box[Idx(box, (n + 1) % BoxSize)]

\* C2: dump (chunks of 0x8000 bytes) and dumpNcm both produce an output as
\* long as the payload with output[n] = payload[n] XOR table[idx(n)] for
\* every absolute payload offset n; the payload is the buffer from offset on.
C2_OutputIsKeystreamXor ==
  pc = "done" =>
    /\ Len(out) = Max(dataLen - offset, 0)
    /\ \A n \in 0..(Len(out) - 1) :
         out[n + 1] = Xor(DataByte(offset + n), KeystreamAt(keyBox, n))

C2_Witness ==
  /\ pc = "done" /\ impl = "node" /\ Len(out) > CHUNK
  /\ out # DataSlice(offset, dataLen)

C4_MetadataFailureNotFatal ==
  metaFailure # "none" =>
    /\ ~(pc = "failed" /\ failedAt = "metaDecode")
    /\ metaJson = NoJson
    /\ (pc = "done" => format = "mp3")

\* C5: a key or metadata block whose length prefix exceeds the remaining
\* bytes makes the decode fail with an out-of-bounds error at that block,
\* before the truncated block is used.
C5_OverrunFailsAtBlock ==
  /\ overrun = "key" =>
       pc = "failed" /\ error = "OutOfBounds" /\ failedAt = "keyLen"
  /\ overrun = "meta" =>
       pc = "failed" /\ error = "OutOfBounds" /\ failedAt = "metaLen"

\* C6: a buffer whose first 8 bytes are not the magic (shorter buffers
\* included) fails with an invalid-header error before anything else is
\* parsed, and no output file is opened or written.
C6_InvalidHeaderFailsFirst ==
  (header # Magic /\ pc # "header") =>
    /\ pc = "failed" /\ error = "InvalidHeader" /\ failedAt = "header"
    /\ ~fileOpened /\ out = <<>>
    /\ overrun = "none" /\ keyTaken = 0 /\ ksaI = 0 /\ metaTaken = 0

C6_Witness ==
  /\ pc = "failed" /\ error = "InvalidHeader" /\ impl = "node"
  /\ Len(header) = 7 /\ header = SubSeq(Magic, 1, 7)

\* C7: with a derived key of zero length the key-table build fails with an
\* empty-key error and no audio is produced.
C7_EmptyKeyFails ==
  (KeyRecovered /\ Len(keyDecrypted) = 0) =>
    \/ pc = "ksa" /\ ksaI = 0
    \/ pc = "failed" /\ error = "EmptyKeyError"

\* C8: the keystream transform is self-inverse: applied twice with the same
\* key box it returns the payload byte for byte.
C8_SelfInverse ==
  sPass = 3 => sOut = sPayload

C8_Witness ==
  /\ sPass = 3 /\ sChunk = 0 /\ Len(sPayload) > 2 * BoxSize
  /\ sFirst # sPayload /\ sOut = sPayload

\* C9: the CLI loop attempts every target once, in list order; a failure is
\* reported for its own file only and never ends the loop before the later
\* files are attempted.
C9_BatchContinues ==
  /\ attempts = SubSeq(targets, 1, ti)
  /\ Len(log) = ti
  /\ \A k \in 1..ti :
       /\ log[k].file = targets[k]
       /\ (log[k].kind = "Failed") <=> (k \in failing)
  /\ ti < Len(targets) => exitCode = -1
  /\ exitCode = 0 => attempts = targets

C9_Witness ==
  /\ exitCode = 0 /\ Len(targets) = 3
  /\ failing = {1, 2} /\ log[3].kind = "Decoded"

\* C10: an image block whose length prefix exceeds the remaining bytes makes
\* the decode fail with an out-of-bounds error; it does not complete with an
\* empty output, and dump creates no output file.
C10_ImageOverrunFails ==
  overrun = "image" =>
    /\ pc = "failed" /\ error = "OutOfBounds"
    /\ ~fileOpened

====
